---- MODULE Spec2Model ----
(***************************************************************************)
(* Model of commisery_action.py: main checks the pull-request title and    *)
(* then every commit message with check_message, which writes the message  *)
(* to the fixed file "commit_message", runs the linter on that file and    *)
(* turns a positive return code into one "::error::" annotation.           *)
(*                                                                         *)
(* Text is a sequence of Unicode code points, file content and the         *)
(* linter's stderr are sequences of bytes.                                 *)
(***************************************************************************)
EXTENDS Integers, Sequences, FiniteSets, TLC

VARIABLES
    title,      \* pullrequest.title
    commits,    \* the messages pullrequest.get_commits() yields, in order
    pc,         \* position of main: "title", "commits", "done"
    idx,        \* position of the for loop in commits
    errors,     \* main's errors counter
    exitcode,   \* exit status of the process, -1 while it runs
    file,       \* content of ./commit_message
    stdout,     \* what the process has printed
    linter,     \* the linter as a function: file content -> outcome, as far as observed
    calls,      \* history: one record per check_message call of main
    cpc,        \* concurrent calls: position of each call
    cmsg,       \* concurrent calls: the message each call was given
    cinput,     \* concurrent calls: what each call's linter read
    cresult     \* concurrent calls: what each call returned

vars == <<title, commits, pc, idx, errors, exitcode, file, stdout, linter, calls,
          cpc, cmsg, cinput, cresult>>

mainVars == <<title, commits, pc, idx, errors, exitcode, calls>>
concVars == <<cpc, cmsg, cinput, cresult>>

\* Longest commit list of a modelled pull request.
MaxCommits == 3

\* Number of check_message calls running concurrently in SpecConc.
NumCalls == 2

----------------------------------------------------------------------------
(* Inputs *)

\* Message texts, well-formed Unicode as the hosting API delivers it:
\* "fix: x", "hi" and U+00E9.
Messages == { <<102, 105, 120, 58, 32, 120>>, <<104, 105>>, <<233>> }

\* What the linter process can do: return code and bytes on stderr.
\*   clean exit; exit 0 with a warning "w"; exit 1 with ESC[1m e LF x ESC[K;
\*   exit 1 with 0xFF; killed by SIGKILL; exit 2 with U+00E9 LF LF "n".
LinterOutcomes ==
    { [returncode |-> 0,  stderr |-> <<>>],
      [returncode |-> 0,  stderr |-> <<119>>],
      [returncode |-> 1,  stderr |-> <<27, 91, 49, 109, 101, 10, 120, 27, 91, 75>>],
      [returncode |-> 1,  stderr |-> <<255>>],
      [returncode |-> -9, stderr |-> <<>>],
      [returncode |-> 2,  stderr |-> <<195, 169, 10, 10, 110>>] }

\* ./commit_message before the run: absent/empty, or left by an earlier run.
InitialFiles == { <<>>, <<111, 108, 100, 32, 109, 101, 115, 115, 97, 103, 101>> }

SeqsUpTo(S, n) == UNION { [1..k -> S] : k \in 0..n }

----------------------------------------------------------------------------
(* UTF-8, as open(..., encoding="UTF-8") and bytes.decode("utf-8") do it *)

utf8_encode_cp(cp) ==
    IF cp < 128 THEN <<cp>>
    ELSE IF cp < 2048 THEN <<192 + (cp \div 64), 128 + (cp % 64)>>
    ELSE IF cp < 65536
         THEN <<224 + (cp \div 4096), 128 + ((cp \div 64) % 64), 128 + (cp % 64)>>
    ELSE <<240 + (cp \div 262144), 128 + ((cp \div 4096) % 64),
           128 + ((cp \div 64) % 64), 128 + (cp % 64)>>

RECURSIVE utf8_encode(_)
utf8_encode(text) ==
    IF text = <<>> THEN <<>>
    ELSE utf8_encode_cp(Head(text)) \o utf8_encode(Tail(text))

IsCont(b) == b >= 128 /\ b <= 191

\* Length of the well-formed UTF-8 sequence at the head of bytes, 0 when the
\* head is not well formed (strict decoding raises UnicodeDecodeError).
utf8_seq_len(b) ==
    LET n == Len(b) IN
    IF b[1] < 128 THEN 1
    ELSE IF b[1] >= 194 /\ b[1] <= 223
         THEN IF n >= 2 /\ IsCont(b[2]) THEN 2 ELSE 0
    ELSE IF b[1] >= 224 /\ b[1] <= 239
         THEN IF /\ n >= 3
                 /\ IsCont(b[2]) /\ IsCont(b[3])
                 /\ (b[1] = 224 => b[2] >= 160)
                 /\ (b[1] = 237 => b[2] <= 159)
              THEN 3 ELSE 0
    ELSE IF b[1] >= 240 /\ b[1] <= 244
         THEN IF /\ n >= 4
                 /\ IsCont(b[2]) /\ IsCont(b[3]) /\ IsCont(b[4])
                 /\ (b[1] = 240 => b[2] >= 144)
                 /\ (b[1] = 244 => b[2] <= 143)
              THEN 4 ELSE 0
    ELSE 0

RECURSIVE utf8_decodable(_)
utf8_decodable(b) ==
    IF b = <<>> THEN TRUE
    ELSE LET n == utf8_seq_len(b) IN
         n > 0 /\ utf8_decodable(SubSeq(b, n + 1, Len(b)))

utf8_decode_cp(b, n) ==
    IF n = 1 THEN b[1]
    ELSE IF n = 2 THEN (b[1] - 192) * 64 + (b[2] - 128)
    ELSE IF n = 3 THEN (b[1] - 224) * 4096 + (b[2] - 128) * 64 + (b[3] - 128)
    ELSE (b[1] - 240) * 262144 + (b[2] - 128) * 4096 + (b[3] - 128) * 64 + (b[4] - 128)

\* stderr.decode("utf-8") of decodable bytes.
RECURSIVE utf8_decode(_)
utf8_decode(b) ==
    IF b = <<>> THEN <<>>
    ELSE LET n == utf8_seq_len(b) IN
         <<utf8_decode_cp(b, n)>> \o utf8_decode(SubSeq(b, n + 1, Len(b)))

----------------------------------------------------------------------------
(* convert_to_multiline, strip_ansicolors, error_message *)

\* os.linesep of the POSIX container the action runs in: "\n".
os_linesep == <<10>>

\* "%0A"
multiline_escape == <<37, 48, 65>>

\* "::error::"
error_prefix == <<58, 58, 101, 114, 114, 111, 114, 58, 58>>

StartsWith(text, p) == Len(text) >= Len(p) /\ SubSeq(text, 1, Len(p)) = p

\* str.replace(old, new) for a non-empty old.
RECURSIVE str_replace(_, _, _)
str_replace(text, old, new) ==
    IF text = <<>> THEN <<>>
    ELSE IF StartsWith(text, old)
         THEN new \o str_replace(SubSeq(text, Len(old) + 1, Len(text)), old, new)
    ELSE <<Head(text)>> \o str_replace(Tail(text), old, new)

\* A mutant of convert_to_multiline: the text is printed as it is.
convert_to_multiline_keep(text) == text

convert_to_multiline(text) == str_replace(text, os_linesep, multiline_escape)

\* Length of the match of \x1b\[(K|.*?m) at the head of text, 0 for no match.
\* "." matches every character but "\n"; ".*?" is lazy, so the first "m" ends it.
ansi_match_len(text) ==
    IF Len(text) >= 3 /\ text[1] = 27 /\ text[2] = 91
    THEN IF text[3] = 75 THEN 3
         ELSE LET ends == { j \in 3..Len(text) :
                              /\ text[j] = 109
                              /\ \A k \in 3..(j - 1) : text[k] # 10 }
              IN IF ends = {} THEN 0
                 ELSE CHOOSE j \in ends : \A k \in ends : j <= k
    ELSE 0

RECURSIVE strip_ansicolors(_)
strip_ansicolors(text) ==
    IF text = <<>> THEN <<>>
    ELSE LET n == ansi_match_len(text) IN
         IF n > 0 THEN strip_ansicolors(SubSeq(text, n + 1, Len(text)))
         ELSE <<Head(text)>> \o strip_ansicolors(Tail(text))

\* What error_message(message) prints: print ends the line with "\n".
error_message(message) ==
    error_prefix \o strip_ansicolors(convert_to_multiline(message)) \o <<10>>

----------------------------------------------------------------------------
(* message_to_file *)

\* A mutant of file_open: the file is opened without truncation ("r+").
file_open_keep(old) == old

\* open(filename, "w+"): the file is truncated.
file_open(old) == <<>>

\* file_obj.write(message) and the close that flushes it: data lands at
\* offset 0 and replaces what is there; bytes beyond it stay.
file_write(old, data) == data \o SubSeq(old, Len(data) + 1, Len(old))

\* The file after message_to_file(message) when nothing else touches it.
message_to_file(old, message) ==
    file_write(file_open(old), utf8_encode(message))

----------------------------------------------------------------------------
(* check_message *)

\* if proc.returncode > 0
linter_failed(returncode) == returncode > 0

\* check_message(message) once the linter, run on input, ended with outcome o:
\* what the call printed and how it ended ("True", "False", or the exception
\* that left it).
check_result(o) ==
    IF linter_failed(o.returncode)
    THEN IF utf8_decodable(o.stderr)
         THEN [out |-> error_message(utf8_decode(o.stderr)), result |-> "False"]
         ELSE [out |-> <<>>, result |-> "UnicodeDecodeError"]
    ELSE [out |-> <<>>, result |-> "True"]

\* The linter is a function of the content of the file it reads: a content
\* seen before gets the outcome it got before.
Lints(content, o) ==
    /\ o \in LinterOutcomes
    /\ content \in DOMAIN linter => o = linter[content]

Observe(content, o) == (content :> o) @@ linter

\* The record of one check_message call.
Call(message, input, o, res) ==
    [message |-> message, input |-> input,
     returncode |-> o.returncode, stderr |-> o.stderr,
     out |-> res.out, result |-> res.result]

Returned(c) == c.result \in {"True", "False"}

\* check_message(message), run from start to end with no other writer of the
\* file: the file, stdout, the linter's observed behaviour and the history
\* after it. calls' ends with this call's record.
check_message(message) ==
    /\ file' = message_to_file(file, message)
    /\ \E o \in LinterOutcomes :
         /\ Lints(file', o)
         /\ linter' = Observe(file', o)
         /\ LET res == check_result(o) IN
            /\ stdout' = stdout \o res.out
            /\ calls' = Append(calls, Call(message, file', o, res))

----------------------------------------------------------------------------
(* main *)

\* A mutant of count_error: errors records only that something failed.
count_error_flag(n, c) == IF c.result = "False" THEN 1 ELSE n

\* if not check_message(...): errors += 1
count_error(n, c) == IF c.result = "False" THEN n + 1 ELSE n

\* sys.exit(1 if errors else 0)
exit_status(n) == IF n # 0 THEN 1 ELSE 0

\* A mutant of commit_at: the commits are walked from the last to the first.
commit_at_reversed(cs, i) == cs[Len(cs) + 1 - i]

\* The i-th commit message the for loop sees.
commit_at(cs, i) == cs[i]

\* The input sequence of messages: the title, then the commits.
InputMessages == <<title>> \o commits

\* After a check_message call of main: on a return main counts and goes on
\* to next; an exception leaves main, and the interpreter ends the process
\* with a traceback and exit status 1.
AfterCall(next) ==
    LET c == calls'[Len(calls')] IN
    IF Returned(c)
    THEN /\ errors' = count_error(errors, c)
         /\ pc' = next
         /\ exitcode' = exitcode
    ELSE /\ errors' = errors
         /\ pc' = "done"
         /\ exitcode' = 1

CheckTitle ==
    /\ pc = "title"
    /\ check_message(title)
    /\ AfterCall("commits")
    /\ UNCHANGED <<title, commits, idx>>
    /\ UNCHANGED concVars

CheckCommit ==
    /\ pc = "commits"
    /\ idx <= Len(commits)
    /\ check_message(commit_at(commits, idx))
    /\ AfterCall("commits")
    /\ idx' = idx + 1
    /\ UNCHANGED <<title, commits>>
    /\ UNCHANGED concVars

Exit ==
    /\ pc = "commits"
    /\ idx > Len(commits)
    /\ exitcode' = exit_status(errors)
    /\ pc' = "done"
    /\ UNCHANGED <<title, commits, idx, errors, file, stdout, linter, calls>>
    /\ UNCHANGED concVars

Init ==
    /\ title \in Messages
    /\ commits \in SeqsUpTo(Messages, MaxCommits)
    /\ pc = "title"
    /\ idx = 1
    /\ errors = 0
    /\ exitcode = -1
    /\ file \in InitialFiles
    /\ stdout = <<>>
    /\ linter = <<>>
    /\ calls = <<>>
    /\ cpc = <<>>
    /\ cmsg = <<>>
    /\ cinput = <<>>
    /\ cresult = <<>>

Next == CheckTitle \/ CheckCommit \/ Exit

Spec == Init /\ [][Next]_vars

----------------------------------------------------------------------------
(* check_message called concurrently: NumCalls calls in one working         *)
(* directory, each a sequence of steps that interleave with the others'.   *)

Callers == 1..NumCalls

Goto(p, label) == cpc' = [cpc EXCEPT ![p] = label]

\* open(filename, "w+") of message_to_file.
COpen(p) ==
    /\ cpc[p] = "open"
    /\ file' = file_open(file)
    /\ Goto(p, "write")
    /\ UNCHANGED <<stdout, linter, cmsg, cinput, cresult>>
    /\ UNCHANGED mainVars

\* file_obj.write(message) and the close at the end of the with block.
CWrite(p) ==
    /\ cpc[p] = "write"
    /\ file' = file_write(file, utf8_encode(cmsg[p]))
    /\ Goto(p, "spawn")
    /\ UNCHANGED <<stdout, linter, cmsg, cinput, cresult>>
    /\ UNCHANGED mainVars

\* subprocess.Popen(["commisery-verify-msg", "commit_message"], ...) returns
\* with the linter process started.
CSpawn(p) ==
    /\ cpc[p] = "spawn"
    /\ Goto(p, "read")
    /\ UNCHANGED <<file, stdout, linter, cmsg, cinput, cresult>>
    /\ UNCHANGED mainVars

\* The linter process of call p reads ./commit_message.
CLinterRead(p) ==
    /\ cpc[p] = "read"
    /\ cinput' = [cinput EXCEPT ![p] = file]
    /\ Goto(p, "wait")
    /\ UNCHANGED <<file, stdout, linter, cmsg, cresult>>
    /\ UNCHANGED mainVars

\* proc.communicate() returns, and check_message goes on to its end.
CCommunicate(p) ==
    /\ cpc[p] = "wait"
    /\ \E o \in LinterOutcomes :
         /\ Lints(cinput[p], o)
         /\ linter' = Observe(cinput[p], o)
         /\ LET res == check_result(o) IN
            /\ stdout' = stdout \o res.out
            /\ cresult' = [cresult EXCEPT ![p] = res.result]
    /\ Goto(p, "done")
    /\ UNCHANGED <<file, cmsg, cinput>>
    /\ UNCHANGED mainVars

InitConc ==
    /\ title = <<>>
    /\ commits = <<>>
    /\ pc = "concurrent"
    /\ idx = 0
    /\ errors = 0
    /\ exitcode = -1
    /\ file \in InitialFiles
    /\ stdout = <<>>
    /\ linter = <<>>
    /\ calls = <<>>
    /\ cpc = [p \in Callers |-> "open"]
    /\ cmsg \in [Callers -> Messages]
    /\ cinput = [p \in Callers |-> <<>>]
    /\ cresult = [p \in Callers |-> "running"]

NextConc ==
    \E p \in Callers :
        COpen(p) \/ CWrite(p) \/ CSpawn(p) \/ CLinterRead(p) \/ CCommunicate(p)

SpecConc == InitConc /\ [][NextConc]_vars

----------------------------------------------------------------------------
(* Properties *)

CallIds == 1..Len(calls)

FalseCalls == { k \in CallIds : calls[k].result = "False" }

CountLF(text) == Cardinality({ i \in 1..Len(text) : text[i] = 10 })

\* The lines of text that start with "::error::".
AnnotationLines(text) ==
    Cardinality({ i \in 1..Len(text) :
                    /\ i = 1 \/ text[i - 1] = 10
                    /\ StartsWith(SubSeq(text, i, Len(text)), error_prefix) })

RECURSIVE OutputOf(_)
OutputOf(cs) == IF cs = <<>> THEN <<>> ELSE Head(cs).out \o OutputOf(Tail(cs))

\* C1: the process ends only after check_message has been invoked exactly
\* once for the title and once for each commit message, in that order,
\* whatever the linter did for each of them.
C1_NeverStopsEarly ==
    pc = "done" =>
        /\ Len(calls) = Len(InputMessages)
        /\ \A k \in CallIds : calls[k].message = InputMessages[k]

\* C2: at exit, errors is the number of messages for which check_message
\* returned False, and the exit status is 0 if every checked message was
\* found valid and 1 otherwise; one invalid message among valid ones gives
\* exit status 1 with errors = 1.
C2_VerdictIsConjunction ==
    pc = "done" =>
        /\ errors = Cardinality(FalseCalls)
        /\ exitcode \in {0, 1}
        /\ exitcode = 0 <=> \A k \in CallIds : calls[k].result = "True"
        /\ ((\A k \in CallIds : Returned(calls[k])) /\ Cardinality(FalseCalls) = 1)
              => (exitcode = 1 /\ errors = 1)

\* C2 witness: a title and three commits have been checked, exactly one of
\* them failed, and the process has exited with status 1.
C2_Witness ==
    /\ pc = "done"
    /\ Len(calls) = 4
    /\ \A k \in CallIds : Returned(calls[k])
    /\ Cardinality(FalseCalls) = 1
    /\ exitcode = 1

\* C3: stdout holds exactly one line per message check_message failed, each
\* of them an "::error::" line; a failed message printed one line whatever
\* the line breaks of the linter's output, a passed message printed nothing.
C3_OneAnnotationPerError ==
    /\ CountLF(stdout) = Cardinality(FalseCalls)
    /\ AnnotationLines(stdout) = Cardinality(FalseCalls)
    /\ \A k \in CallIds :
         /\ calls[k].result = "False" =>
               /\ StartsWith(calls[k].out, error_prefix)
               /\ CountLF(calls[k].out) = 1
               /\ calls[k].out[Len(calls[k].out)] = 10
         /\ calls[k].result = "True" => calls[k].out = <<>>

\* C3 witness: the run is over, two messages failed, one of them with linter
\* output of several lines, and another message passed.
C3_Witness ==
    /\ pc = "done"
    /\ Cardinality(FalseCalls) = 2
    /\ \E k \in FalseCalls : CountLF(utf8_decode(calls[k].stderr)) >= 2
    /\ \E k \in CallIds : calls[k].result = "True"

\* C4: the k-th check_message call is for the k-th input message (the title,
\* then the commits in the order of the commit list), and stdout holds what
\* the calls printed in that same order.
C4_OrderPreserved ==
    /\ Len(calls) <= Len(InputMessages)
    /\ \A k \in CallIds : calls[k].message = InputMessages[k]
    /\ stdout = OutputOf(calls)

\* C4 witness: a run over a title and three commits, no two commits alike,
\* in which two messages failed with different annotations.
C4_Witness ==
    /\ pc = "done"
    /\ Len(calls) = 4
    /\ \A i, j \in 1..Len(commits) : i # j => commits[i] # commits[j]
    /\ \E j, k \in FalseCalls : calls[j].out # calls[k].out

\* C6: when check_message calls run concurrently, the linter of each call
\* reads exactly the message that call was given.
C6_LinterReadsOwnMessage ==
    \A p \in DOMAIN cpc :
        cpc[p] \in {"wait", "done"} => cinput[p] = utf8_encode(cmsg[p])

\* C7: the linter of every call reads exactly the message of that call, with
\* nothing left of what the file held before, and two calls for the same
\* message end the same way and print the same, whatever was checked between.
C7_Idempotent ==
    /\ \A k \in CallIds :
         calls[k].input = utf8_encode(calls[k].message)
    /\ \A j, k \in CallIds :
         calls[j].message = calls[k].message =>
            /\ calls[j].result = calls[k].result
            /\ calls[j].out = calls[k].out

\* C7 witness: a message was checked twice, with a longer message checked in
\* between.
C7_Witness ==
    /\ pc = "done"
    /\ \E i, j, k \in CallIds :
         /\ i < j /\ j < k
         /\ calls[i].message = calls[k].message
         /\ Len(calls[j].input) > Len(calls[k].input)

\* C8: every check_message call returns a verdict to main, whatever the
\* message and whatever the linter's exit status and stderr, and the run
\* goes on to the remaining messages and the aggregate exit status.
C8_NoFaultEscapes ==
    /\ \A k \in CallIds : Returned(calls[k])
    /\ pc = "done" => exitcode = exit_status(errors)

\* C9: a message whose linter wrote diagnostics and exited without an error
\* is valid, and its diagnostics are printed.
C9_WarningsReported ==
    \A k \in CallIds :
        (calls[k].returncode = 0 /\ calls[k].stderr # <<>>)
            => (calls[k].result = "True" /\ calls[k].out # <<>>)

\* C10: check_message returns True only when the linter exited with status
\* 0, so the run exits with status 0 only if every linter did.
C10_AcceptedOnlyOnCleanExit ==
    /\ \A k \in CallIds :
         calls[k].result = "True" => calls[k].returncode = 0
    /\ (pc = "done" /\ exitcode = 0) =>
         \A k \in CallIds : calls[k].returncode = 0

====
